---- MODULE Spec2Model ----
(***************************************************************************)
(* Detached-instance lifecycle of the ganache CLI (packages/cli/src/detach *)
(* and packages/cli/src/cli.ts).                                           *)
(*                                                                         *)
(* The world is: the OS process table, the registry directory (one file    *)
(* per pid), and a fixed set of launcher processes (CLI invocations), each *)
(* running one of start-detached / stop / list at a time.  Launchers are   *)
(* separate OS processes, so every system call of one launcher may         *)
(* interleave with the system calls of the others and with the detached    *)
(* children.  Inside one launcher, events of its child (IPC message, exit) *)
(* are dispatched only while its event loop is free, i.e. at an await.     *)
(***************************************************************************)
EXTENDS Integers, Sequences, FiniteSets, TLC

\* ---------------------------------------------------------------- bounds
MaxPid == 2        \* pids are PidBase .. PidBase + MaxPid - 1
MaxCalls == 2      \* CLI invocations begun in one behaviour
MaxSpawn == 2      \* processes created in all (forks and unrelated ones)
MaxTime == 1       \* Date.now() ranges over 0 .. MaxTime
MaxDepth == 2      \* nesting of the objects given to createFlatChildArgs
MaxKeys == 2       \* keys of one such object
MaxDays == 2       \* whole days in the durations given to formatDuration

PidBase == 9
Pids == PidBase .. (PidBase + MaxPid - 1)
NoPid == 0
Launchers == {"A", "B"}
NoOwner == "-"
Names == {"n1", "n2"}
NoName == ""
Configs == {"eth", "fil"}
NoCfg == ""
NullCode == -1     \* `code` of an 'exit' event when the child died of a signal
NoCode == -2       \* no 'exit' event

\* ------------------------------------------------------- pure functions

\* args.flavor / args.server.host / args.server.port of the two configurations
Flavor(c) == IF c = "eth" THEN "ethereum" ELSE "filecoin"
Host(c) == IF c = "eth" THEN "127.0.0.1" ELSE "0.0.0.0"
Port(c) == IF c = "eth" THEN 8545 ELSE 7777

\* the command line the OS reports for a child forked with configuration c
ChildCmd(c) == IF c = "eth" THEN "node cli ethereum --server.port=8545"
                        ELSE "node cli filecoin --server.port=7777"
OtherCmd == "other"
NoCmd == ""

\* `${pid}`: a number as its decimal digits
RECURSIVE ToDecimal(_)
ToDecimal(n) == IF n < 10 THEN <<n>> ELSE ToDecimal(n \div 10) \o <<n % 10>>

\* parseInt(filename)
RECURSIVE parseInt(_)
parseInt(s) ==
  IF Len(s) = 1 THEN s[1]
  ELSE 10 * parseInt(SubSeq(s, 1, Len(s) - 1)) + s[Len(s)]

\* `${dataPath}/${pid}`
instanceFilename(pid) == ToDecimal(pid)
Filenames == {instanceFilename(pid) : pid \in Pids}

\* the DetachedInstance type
NoInstance ==
  [instanceName |-> NoName, pid |-> NoPid, startTime |-> 0, host |-> "",
   port |-> 0, flavor |-> "", cmd |-> NoCmd, version |-> ""]

\* Contents of a registry file: absent, present but not (yet) valid JSON
\* (writeFileSync opens with truncation before it writes), or a JSON document.
NoFile == [st |-> "none", json |-> NoInstance]
Truncated == [st |-> "truncated", json |-> NoInstance]
JSONstringify(instance) == [st |-> "json", json |-> instance]
existsSync(content) == content.st # "none"
\* readFileSync + JSON.parse succeed; otherwise they throw (ENOENT, SyntaxError)
Parses(content) == content.st = "json"
JSONparse(content) == content.json

\* instances.sort((a, b) => b.startTime - a.startTime): stable, newest first
RECURSIVE InsertSorted(_, _)
InsertSorted(x, s) ==
  IF s = <<>> THEN <<x>>
  ELSE IF s[Len(s)].startTime >= x.startTime THEN Append(s, x)
  ELSE Append(InsertSorted(x, SubSeq(s, 1, Len(s) - 1)), s[Len(s)])

\* a sort that leaves the records in the order of the directory listing
sortKeepsOrder(s) == s

RECURSIVE sort(_)
sort(s) ==
  IF s = <<>> THEN <<>>
  ELSE InsertSorted(s[Len(s)], sort(SubSeq(s, 1, Len(s) - 1)))

\* all orders in which readdirSync may return the set S of filenames
Orders(S) ==
  {f \in [1 .. Cardinality(S) -> S] : \A a, b \in 1 .. Cardinality(S) : f[a] = f[b] => a = b}

\* instances.map(instance => instance.instanceName)
instanceNames(instances) == {instances[k].instanceName : k \in 1 .. Len(instances)}

\* findDetachedInstanceByName that returns the first record when none matches
findFirstInstance(instances, name) ==
  IF \E k \in 1 .. Len(instances) : instances[k].instanceName = name
  THEN CHOOSE k \in 1 .. Len(instances) :
         /\ instances[k].instanceName = name
         /\ \A j \in 1 .. (k - 1) : instances[j].instanceName # name
  ELSE IF Len(instances) > 0 THEN 1 ELSE 0

\* findDetachedInstanceByName: index of the first record with that name, 0 if none
findDetachedInstanceByName(instances, name) ==
  IF \E k \in 1 .. Len(instances) : instances[k].instanceName = name
  THEN CHOOSE k \in 1 .. Len(instances) :
         /\ instances[k].instanceName = name
         /\ \A j \in 1 .. (k - 1) : instances[j].instanceName # name
  ELSE 0

\* process.exitCode = code === 0 ? 1 : code
ExitStatus(code) == IF code = 0 THEN 1 ELSE code

\* ---------------------------------------------------- createFlatChildArgs
\* JavaScript values: numbers, strings, booleans, null and objects.  An object
\* is the sequence of its [key, value] entries in the order `for (key in
\* args)` visits them.
Number(n) == [type |-> "number", num |-> n, str |-> "", bool |-> FALSE, entries |-> <<>>]
String(s) == [type |-> "string", num |-> 0, str |-> s, bool |-> FALSE, entries |-> <<>>]
Boolean(b) == [type |-> "boolean", num |-> 0, str |-> "", bool |-> b, entries |-> <<>>]
Null == [type |-> "null", num |-> 0, str |-> "", bool |-> FALSE, entries |-> <<>>]
Object(entries) == [type |-> "object", num |-> 0, str |-> "", bool |-> FALSE, entries |-> entries]

\* the keys and the leaf values of the objects that are flattened
Keys == {"flavor", "action", "a", "b"}
Leaves == {Number(1), String("x"), Boolean(TRUE), Null}

\* the objects with distinct keys, at most MaxKeys of them, and values in V
ObjectsOver(V) ==
  {Object(e) : e \in
     {f \in UNION {[1 .. n -> [key : Keys, value : V]] : n \in 0 .. MaxKeys} :
        \A i, j \in DOMAIN f : f[i].key = f[j].key => i = j}}

\* the objects nested at most d deep
RECURSIVE Objects(_)
Objects(d) ==
  IF d = 1 THEN ObjectsOver(Leaves) ELSE ObjectsOver(Leaves \cup Objects(d - 1))

\* a typeof that tells null from an object
typeofNullAsNull(value) == value.type

\* typeof value: null is an "object"
typeof(value) == IF value.type = "null" THEN "object" ELSE value.type

\* `${value}` of a value that is not an object
TemplateString(value) ==
  IF value.type = "number" THEN ToString(value.num)
  ELSE IF value.type = "string" THEN value.str
  ELSE IF value.type = "boolean" THEN (IF value.bool THEN "true" ELSE "false")
  ELSE "null"

\* const prefix = namespace === null ? "" : `${namespace}.`;
\* a namespace is <<>> (null) or <<string>>
Prefix(namespace) == IF namespace = <<>> THEN "" ELSE namespace[1] \o "."

\* flatten(namespace, args) from entry k of args on; flattenedArgs is threaded
\* through.  A flag is pushed as a string, the flavor is unshifted as it is.
RECURSIVE flatten(_, _, _, _)
flatten(namespace, args, k, flattenedArgs) ==
  IF k > Len(args.entries) THEN flattenedArgs
  ELSE LET key == args.entries[k].key
           value == args.entries[k].value
           prefix == Prefix(namespace)
       IN flatten(namespace, args, k + 1,
            IF key = "flavor" THEN <<value>> \o flattenedArgs
            ELSE IF key # "action"
            THEN IF typeof(value) = "object"
                 THEN flatten(<<prefix \o key>>, value, 1, flattenedArgs)
                 ELSE Append(flattenedArgs,
                             String((("--" \o prefix) \o key) \o ("=" \o TemplateString(value))))
            ELSE flattenedArgs)

\* createFlatChildArgs(args): flatten(null, args); return flattenedArgs
createFlatChildArgs(args) == flatten(<<>>, args, 1, <<>>)

\* --------------------------------------------------------- formatDuration
\* Math.abs(ms)
Abs(ms) == IF ms < 0 THEN 0 - ms ELSE ms

\* const time = {day: ..., hour: ..., minute: ..., second: ...} of the
\* absolute value ms, as Object.entries(time) lists it
TimeEntries(ms) ==
  <<[key |-> "day", val |-> ms \div 86400000],
    [key |-> "hour", val |-> (ms \div 3600000) % 24],
    [key |-> "minute", val |-> (ms \div 60000) % 60],
    [key |-> "second", val |-> (ms \div 1000) % 60]>>

\* .filter(val => val[1] !== 0)
RECURSIVE FilterNonZero(_)
FilterNonZero(entries) ==
  IF entries = <<>> THEN <<>>
  ELSE IF entries[1].val # 0 THEN <<entries[1]>> \o FilterNonZero(Tail(entries))
  ELSE FilterNonZero(Tail(entries))

\* `${val} ${key}${val !== 1 ? "s" : ""}`
Unit(entry) ==
  ((ToString(entry.val) \o " ") \o entry.key) \o (IF entry.val # 1 THEN "s" ELSE "")

\* .map(...).join(", ")
RECURSIVE Join(_)
Join(entries) ==
  IF entries = <<>> THEN ""
  ELSE IF Len(entries) = 1 THEN Unit(entries[1])
  ELSE (Unit(entries[1]) \o ", ") \o Join(Tail(entries))

\* formatDuration(ms)
formatDuration(ms) == Join(FilterNonZero(TimeEntries(Abs(ms))))

\* the durations that are formatted: either sign, whole days, and the hours,
\* minutes, seconds and milliseconds at and next to their borders
Durations ==
  {sign * (((d * 86400000 + h * 3600000) + (m * 60000 + sec * 1000)) + milli) :
     sign \in {1, -1}, d \in 0 .. MaxDays, h \in {0, 1, 23}, m \in {0, 1, 59},
     sec \in {0, 1, 2, 59}, milli \in {0, 1, 999}}

\* ------------------------------------------------------------------ state
VARIABLES
  procs,    \* OS process table: pid -> process
  files,    \* registry directory: filename -> contents
  cli,      \* launcher -> the CLI invocation it is running
  now,      \* Date.now()
  ncalls,   \* CLI invocations begun
  nspawn,   \* processes created
  flat,     \* a call of createFlatChildArgs on its own: argument and result
  fmt       \* a call of formatDuration on its own: argument and result

vars == <<procs, files, cli, now, ncalls, nspawn, flat, fmt>>

\* what the detached-instance lifecycle leaves alone
aside == <<flat, fmt>>

\* no call of createFlatChildArgs
NoFlat == [args |-> Null, returned |-> FALSE, flattenedArgs |-> <<>>]

\* no call of formatDuration
NoFmt == [ms |-> 0, returned |-> FALSE, result |-> ""]

\* A process-table entry.  For a detached child (cli.ts): status is
\* server.status, shut is receivedShutdownSignal, owner the launcher that
\* holds its IPC channel; reg is history: start() has begun to persist it;
\* announced is history: the calls of notifyDetachedInstanceReady it made.
NoProc ==
  [alive |-> FALSE, cmd |-> NoCmd, kind |-> "none", status |-> "none",
   shut |-> FALSE, owner |-> NoOwner, reg |-> FALSE, announced |-> 0]

\* A CLI invocation and the locals of the function it runs (names as in
\* detach.ts); ready and exit are the events of the child not yet emitted.
\* History: removed and signalled are the pids whose file this invocation
\* removed and which it sent SIGTERM; sentReady: its child sent the readiness
\* message; exited: the code its child exited with during start().
IdleCli ==
  [op |-> "none", pc |-> "idle", args |-> NoCfg, name |-> NoName,
   child |-> NoPid, cmd |-> NoCmd, files |-> <<>>, i |-> 0,
   processes |-> [q \in Pids |-> NoCmd], instances |-> <<>>,
   instanceName |-> NoName, instance |-> NoInstance, delivered |-> FALSE,
   found |-> FALSE, err |-> "", exitCode |-> 0,
   ready |-> FALSE, exit |-> NoCode,
   removed |-> {}, signalled |-> {}, sentReady |-> FALSE, exited |-> NoCode]

\* An instance that an earlier `ganache --detach` left running: its process,
\* past its listen callback, and the record start() wrote for it.
EarlierInstance ==
  [instanceName |-> "n1", pid |-> PidBase, startTime |-> 0, host |-> Host("eth"),
   port |-> Port("eth"), flavor |-> Flavor("eth"), cmd |-> ChildCmd("eth"),
   version |-> "DEV"]

EarlierProcess ==
  [alive |-> TRUE, cmd |-> ChildCmd("eth"), kind |-> "ganache", status |-> "open",
   shut |-> FALSE, owner |-> NoOwner, reg |-> TRUE, announced |-> 1]

\* The registry is empty, or holds the one instance earlier invocations left.
Init ==
  /\ \/ /\ procs = [q \in Pids |-> NoProc]
        /\ files = [f \in Filenames |-> NoFile]
        /\ nspawn = 0
     \/ /\ procs = [q \in Pids |-> IF q = PidBase THEN EarlierProcess ELSE NoProc]
        /\ files = [f \in Filenames |->
             IF f = instanceFilename(PidBase) THEN JSONstringify(EarlierInstance)
             ELSE NoFile]
        /\ nspawn = 1
  /\ cli = [p \in Launchers |-> IdleCli]
  /\ now = 0
  /\ ncalls = 0
  /\ flat = NoFlat
  /\ fmt = NoFmt

\* psList(): one snapshot of the process table, pid -> cmd (NoCmd: no such pid)
psList == [q \in Pids |-> IF procs[q].alive THEN procs[q].cmd ELSE NoCmd]

\* a launcher that is not inside a call
Finished(p) == cli[p].pc \in {"idle", "done", "failed"}

\* the launcher still holds the child object of its start() call and has
\* not left the Promise (child.disconnect() follows resolve())
Attached(p, q) ==
  /\ procs[q].owner = p
  /\ cli[p].op = "start"
  /\ cli[p].child = q
  /\ cli[p].pc \notin {"idle", "done", "failed", "open", "write"}

\* a live detached instance that start() registered (or is registering)
ValidInstance(q) == procs[q].alive /\ procs[q].kind = "ganache" /\ procs[q].reg

\* a closeHandler that forgets a signal that comes while the server is opening
SignalledLostWhileOpening(q) ==
  IF procs[q].kind = "ganache"
  THEN IF procs[q].status = "opening"
       THEN procs
       ELSE [procs EXCEPT ![q].status = "closing"]
  ELSE [procs EXCEPT ![q] = NoProc]

\* the process table after SIGTERM is delivered to live process q:
\* a detached child runs handleSignal -> closeHandler (cli.ts), any other
\* process takes the default action and dies
Signalled(q) ==
  IF procs[q].kind = "ganache"
  THEN IF procs[q].status = "opening"
       THEN [procs EXCEPT ![q].shut = TRUE]
       ELSE [procs EXCEPT ![q].status = "closing"]
  ELSE [procs EXCEPT ![q] = NoProc]

\* removeDetachedInstanceFile(process.pid) run by the exit handler of a child
ExitHandler(q) == [files EXCEPT ![instanceFilename(q)] = NoFile]

\* the invocation c rejected with err: only what the caller can see is kept
Rejected(c, err) ==
  [IdleCli EXCEPT !.op = c.op, !.pc = "failed", !.args = c.args, !.name = c.name,
                  !.child = c.child, !.err = err, !.exitCode = c.exitCode,
                  !.removed = c.removed, !.signalled = c.signalled,
                  !.sentReady = c.sentReady, !.exited = c.exited]

\* the invocation c resolved: the locals of the finished pass are dropped
Resolved(c) ==
  [c EXCEPT !.pc = "done", !.files = <<>>, !.i = 0,
            !.processes = [q \in Pids |-> NoCmd], !.ready = FALSE, !.exit = NoCode]

\* ------------------------------------------------- getDetachedInstances()
\* The pass runs on its own (list), inside stop() and inside start().

\* const files = readdirSync(dataPath); const instances = [];
Readdir(p) ==
  /\ cli[p].pc = "readdir"
  /\ \E fs \in Orders({f \in Filenames : existsSync(files[f])}) :
       cli' = [cli EXCEPT ![p].files = fs, ![p].instances = <<>>, ![p].pc = "psList"]
  /\ UNCHANGED <<aside, procs, files, now, ncalls, nspawn>>

\* const processes = await psList();
ListPsList(p) ==
  /\ cli[p].pc = "psList"
  /\ cli' = [cli EXCEPT ![p].processes = psList, ![p].i = 1, ![p].pc = "loop"]
  /\ UNCHANGED <<aside, procs, files, now, ncalls, nspawn>>

\* the iteration that forgets shouldRemoveFile when the process is gone
LoopBodySkipsGone(c, dir) ==
  LET filename == c.files[c.i]
      pid == parseInt(filename)
      foundProcess == c.processes[pid]
      content == dir[instanceFilename(pid)]
  IN IF foundProcess = NoCmd
     THEN [c EXCEPT !.i = c.i + 1]
     ELSE IF ~Parses(content)
     THEN [c EXCEPT !.pc = "kill"]
     ELSE IF foundProcess # JSONparse(content).cmd
     THEN [c EXCEPT !.pc = "exists"]
     ELSE [c EXCEPT !.instances = Append(c.instances, JSONparse(content)),
                    !.i = c.i + 1]

\* the iteration that keeps a live record and removes its file all the same
LoopBodyRemovesLive(c, dir) ==
  LET filename == c.files[c.i]
      pid == parseInt(filename)
      foundProcess == c.processes[pid]
      content == dir[instanceFilename(pid)]
  IN IF foundProcess = NoCmd
     THEN IF existsSync(content) THEN [c EXCEPT !.pc = "rm"]
          ELSE [c EXCEPT !.i = c.i + 1]
     ELSE IF ~Parses(content)
     THEN [c EXCEPT !.pc = "kill"]
     ELSE IF foundProcess # JSONparse(content).cmd
     THEN [c EXCEPT !.pc = "exists"]
     ELSE [c EXCEPT !.instances = Append(c.instances, JSONparse(content)),
                    !.pc = "exists"]

\* the iteration with the process that took over the pid killed like the
\* owner of an unreadable record
LoopBodyKillsReused(c, dir) ==
  LET filename == c.files[c.i]
      pid == parseInt(filename)
      foundProcess == c.processes[pid]
      content == dir[instanceFilename(pid)]
  IN IF foundProcess = NoCmd
     THEN IF existsSync(content) THEN [c EXCEPT !.pc = "rm"]
          ELSE [c EXCEPT !.i = c.i + 1]
     ELSE IF ~Parses(content) \/ foundProcess # JSONparse(content).cmd
     THEN [c EXCEPT !.pc = "kill"]
     ELSE [c EXCEPT !.instances = Append(c.instances, JSONparse(content)),
                    !.i = c.i + 1]

\* One iteration up to its first file-system call: processes.find, then
\* existsSync (no such process) or readFileSync + JSON.parse + cmd comparison.
\* The invocation after that step, given the registry `dir` as it is now.
LoopBody(c, dir) ==
  LET filename == c.files[c.i]
      pid == parseInt(filename)
      foundProcess == c.processes[pid]
      content == dir[instanceFilename(pid)]
  IN IF foundProcess = NoCmd
     THEN \* shouldRemoveFile = true; removeDetachedInstanceFile: existsSync
          IF existsSync(content) THEN [c EXCEPT !.pc = "rm"]
          ELSE [c EXCEPT !.i = c.i + 1]
     ELSE IF ~Parses(content)
     THEN [c EXCEPT !.pc = "kill"]
     ELSE IF foundProcess # JSONparse(content).cmd
     THEN [c EXCEPT !.pc = "exists"]
     ELSE [c EXCEPT !.instances = Append(c.instances, JSONparse(content)),
                    !.i = c.i + 1]

Loop(p) ==
  /\ cli[p].pc = "loop"
  /\ cli[p].i <= Len(cli[p].files)
  /\ cli' = [cli EXCEPT ![p] = LoopBody(cli[p], files)]
  /\ UNCHANGED <<aside, procs, files, now, ncalls, nspawn>>

\* catch (err) { process.kill(pid, "SIGTERM"); shouldRemoveFile = true; }
\* process.kill throws when there is no such process (ESRCH) or the signal
\* may not be sent (EPERM); thrown from the catch block, it rejects the pass.
ListKill(p) ==
  /\ cli[p].pc = "kill"
  /\ LET pid == parseInt(cli[p].files[cli[p].i])
     IN \/ /\ procs[pid].alive
           /\ procs' = Signalled(pid)
           /\ cli' = [cli EXCEPT ![p].signalled = @ \cup {pid}, ![p].pc = "exists"]
        \/ /\ ~procs[pid].alive \/ procs[pid].kind = "other"
           /\ procs' = procs
           /\ cli' = [cli EXCEPT ![p] =
                Rejected(cli[p], IF procs[pid].alive THEN "EPERM" ELSE "ESRCH")]
  /\ UNCHANGED <<aside, files, now, ncalls, nspawn>>

\* removeDetachedInstanceFile(pid): if (existsSync(instanceFilename))
ListExists(p) ==
  /\ cli[p].pc = "exists"
  /\ LET pid == parseInt(cli[p].files[cli[p].i])
     IN cli' = [cli EXCEPT ![p] =
          IF existsSync(files[instanceFilename(pid)])
          THEN [cli[p] EXCEPT !.pc = "rm"]
          ELSE [cli[p] EXCEPT !.i = @ + 1, !.pc = "loop"]]
  /\ UNCHANGED <<aside, procs, files, now, ncalls, nspawn>>

\* rmSync(instanceFilename): throws ENOENT when the file is gone by now
ListRm(p) ==
  /\ cli[p].pc = "rm"
  /\ LET pid == parseInt(cli[p].files[cli[p].i])
         filename == instanceFilename(pid)
     IN IF existsSync(files[filename])
        THEN /\ files' = [files EXCEPT ![filename] = NoFile]
             /\ cli' = [cli EXCEPT ![p].removed = @ \cup {pid},
                                   ![p].i = @ + 1, ![p].pc = "loop"]
        ELSE /\ files' = files
             /\ cli' = [cli EXCEPT ![p] = Rejected(cli[p], "ENOENT")]
  /\ UNCHANGED <<aside, procs, now, ncalls, nspawn>>

\* instances.sort(...); return instances; and the caller's next statements
\* up to its next await or system call.
Returned(c) ==
  LET sorted == sort(c.instances)
      k == findDetachedInstanceByName(sorted, c.name)
      r == [Resolved(c) EXCEPT !.instances = sorted]
  IN IF c.op = "list" THEN r
     ELSE IF c.op = "start" THEN [r EXCEPT !.pc = "name", !.ready = c.ready, !.exit = c.exit]
     ELSE IF k = 0 THEN [r EXCEPT !.found = FALSE]
     ELSE [r EXCEPT !.instance = sorted[k], !.pc = "stopKill"]

ListReturn(p) ==
  /\ cli[p].pc = "loop"
  /\ cli[p].i > Len(cli[p].files)
  /\ cli' = [cli EXCEPT ![p] = Returned(cli[p])]
  /\ UNCHANGED <<aside, procs, files, now, ncalls, nspawn>>

\* --------------------------------------------------------------- the CLI

\* the process table once launcher p lets go of its child object
Release(p) ==
  [q \in Pids |-> IF procs[q].owner = p THEN [procs[q] EXCEPT !.owner = NoOwner]
                  ELSE procs[q]]

\* Launchers are interchangeable: "B" is the one that begins second.
MayBegin(p) ==
  /\ Finished(p)
  /\ ncalls < MaxCalls
  /\ p = "B" => cli["A"].pc # "idle"

\* cli.ts, action "list": getDetachedInstances()
BeginList(p) ==
  /\ MayBegin(p)
  /\ cli' = [cli EXCEPT ![p] = [IdleCli EXCEPT !.op = "list", !.pc = "readdir"]]
  /\ procs' = Release(p)
  /\ ncalls' = ncalls + 1
  /\ UNCHANGED <<aside, files, now, nspawn>>

\* cli.ts, action "stop": stopDetachedInstance(instanceName) up to its await
BeginStop(p, instanceName) ==
  /\ MayBegin(p)
  /\ cli' = [cli EXCEPT ![p] =
       [IdleCli EXCEPT !.op = "stop", !.name = instanceName, !.pc = "readdir"]]
  /\ procs' = Release(p)
  /\ ncalls' = ncalls + 1
  /\ UNCHANGED <<aside, files, now, nspawn>>

\* ------------------------------------------------- stopDetachedInstance()

\* stop() whose catch returns without a finally block
StopKillNoFinally(p) ==
  /\ cli[p].pc = "stopKill"
  /\ LET pid == cli[p].instance.pid
     IN \/ /\ procs[pid].alive
           /\ procs' = Signalled(pid)
           /\ cli' = [cli EXCEPT ![p].signalled = @ \cup {pid},
                                 ![p].delivered = TRUE, ![p].pc = "stopExists"]
        \/ /\ ~procs[pid].alive \/ procs[pid].kind = "other"
           /\ procs' = procs
           /\ cli' = [cli EXCEPT ![p].delivered = FALSE, ![p].found = FALSE,
                                 ![p].pc = "done"]
  /\ UNCHANGED <<aside, files, now, ncalls, nspawn>>

\* try { process.kill(instance.pid, "SIGTERM") } catch (err) { return false }
StopKill(p) ==
  /\ cli[p].pc = "stopKill"
  /\ LET pid == cli[p].instance.pid
     IN \/ /\ procs[pid].alive
           /\ procs' = Signalled(pid)
           /\ cli' = [cli EXCEPT ![p].signalled = @ \cup {pid},
                                 ![p].delivered = TRUE, ![p].pc = "stopExists"]
        \/ /\ ~procs[pid].alive \/ procs[pid].kind = "other"
           /\ procs' = procs
           /\ cli' = [cli EXCEPT ![p].delivered = FALSE, ![p].pc = "stopExists"]
  /\ UNCHANGED <<aside, files, now, ncalls, nspawn>>

\* stop() that reports a found record whatever became of the signal
StopResultFound(c) == TRUE

\* the value stop() returns once the finally block is through:
\* `return true` after the try, `return false` from the catch
StopResult(c) == c.delivered

\* finally { removeDetachedInstanceFile(instance.pid) }: existsSync
StopExists(p) ==
  /\ cli[p].pc = "stopExists"
  /\ cli' = [cli EXCEPT ![p] =
       IF existsSync(files[instanceFilename(cli[p].instance.pid)])
       THEN [cli[p] EXCEPT !.pc = "stopRm"]
       ELSE [cli[p] EXCEPT !.found = StopResult(cli[p]), !.pc = "done"]]
  /\ UNCHANGED <<aside, procs, files, now, ncalls, nspawn>>

\* rmSync, then the pending return; an ENOENT thrown here replaces it
StopRm(p) ==
  /\ cli[p].pc = "stopRm"
  /\ LET pid == cli[p].instance.pid
         filename == instanceFilename(pid)
     IN IF existsSync(files[filename])
        THEN /\ files' = [files EXCEPT ![filename] = NoFile]
             /\ cli' = [cli EXCEPT ![p].removed = @ \cup {pid},
                                   ![p].found = StopResult(cli[p]), ![p].pc = "done"]
        ELSE /\ files' = files
             /\ cli' = [cli EXCEPT ![p] = Rejected(cli[p], "ENOENT")]
  /\ UNCHANGED <<aside, procs, now, ncalls, nspawn>>

\* ------------------------------------------------ startDetachedInstance()

\* cli.ts, action "start-detached": fork(module, childArgs, {detached: true});
\* the OS gives the child any pid that is free
StartFork(p, args) ==
  /\ MayBegin(p)
  /\ nspawn < MaxSpawn
  /\ \E q \in Pids :
       /\ ~procs[q].alive
       /\ procs' = [Release(p) EXCEPT ![q] =
            [alive |-> TRUE, cmd |-> ChildCmd(args), kind |-> "ganache",
             status |-> "opening", shut |-> FALSE, owner |-> p, reg |-> FALSE,
             announced |-> 0]]
       /\ cli' = [cli EXCEPT ![p] =
            [IdleCli EXCEPT !.op = "start", !.args = args, !.child = q, !.pc = "cmd"]]
  /\ ncalls' = ncalls + 1
  /\ nspawn' = nspawn + 1
  /\ UNCHANGED <<aside, files, now>>

\* fork cannot create the process: no pid, and 'error' is emitted on the child
\* object at the next tick, long before line 124 attaches a listener for it.
\* An 'error' event nobody listens to is thrown: the launcher dies of the
\* uncaught exception, with exit status 1.
StartForkError(p, args) ==
  /\ MayBegin(p)
  /\ cli' = [cli EXCEPT ![p] =
       [Rejected([IdleCli EXCEPT !.op = "start", !.args = args], "SpawnError")
          EXCEPT !.exitCode = 1]]
  /\ procs' = Release(p)
  /\ ncalls' = ncalls + 1
  /\ UNCHANGED <<aside, files, now, nspawn>>

\* const cmd = (await psList()).find(p => p.pid === child.pid).cmd;
\* find returns undefined when the child is gone: `.cmd` throws a TypeError
StartCmd(p) ==
  /\ cli[p].pc = "cmd"
  /\ cli' = [cli EXCEPT ![p] =
       IF psList[cli[p].child] = NoCmd
       THEN Rejected(cli[p], "TypeError")
       ELSE [cli[p] EXCEPT !.cmd = psList[cli[p].child], !.pc = "readdir"]]
  /\ UNCHANGED <<aside, procs, files, now, ncalls, nspawn>>

\* the name selection that takes the first name generated, taken or not
NameLoopFirstDraw(c, generated) ==
  [c EXCEPT !.instanceName = generated, !.pc = "wait"]

\* the name selection of a start() that does not wait for the handshake
NameLoopNoWait(c, generated) ==
  [c EXCEPT !.instanceName = generated,
            !.pc = IF generated \in instanceNames(c.instances) THEN "name" ELSE "open"]

\* one round of do { instanceName = createInstanceName() } while (taken);
\* leaving the loop runs the Promise executor, which attaches the listeners
NameLoop(c, generated) ==
  [c EXCEPT !.instanceName = generated,
            !.pc = IF generated \in instanceNames(c.instances) THEN "name" ELSE "wait"]

StartName(p) ==
  /\ cli[p].pc = "name"
  /\ \E generated \in Names : cli' = [cli EXCEPT ![p] = NameLoop(cli[p], generated)]
  /\ UNCHANGED <<aside, procs, files, now, ncalls, nspawn>>

\* the event loop of launcher p is free to emit the events of its child:
\* it is at one of the awaits of start()
EventLoopFree(p) == cli[p].op = "start" /\ cli[p].pc \in {"cmd", "psList", "wait"}

\* child.on("message"), child.on("exit") are attached
Listening(c) == c.pc = "wait"

\* 'message' is emitted: resolve() when the listener is attached, else nobody
\* hears.  What the child emits after resolve() is not followed: start() runs
\* on to its return without another await, and the launcher ends.
OnMessage(c) ==
  IF Listening(c) THEN [c EXCEPT !.ready = FALSE, !.exit = NoCode, !.pc = "open"]
  ELSE [c EXCEPT !.ready = FALSE]

\* an 'exit' listener that lets start() go on as if the child were ready
OnExitResolves(c) ==
  IF Listening(c) THEN [c EXCEPT !.exit = NoCode, !.pc = "open"]
  ELSE [c EXCEPT !.exit = NoCode]

\* 'exit' is emitted: process.exitCode = code === 0 ? 1 : code; reject(...)
OnExit(c) ==
  IF Listening(c)
  THEN [Rejected(c, "START_ERROR") EXCEPT !.exitCode = ExitStatus(c.exit)]
  ELSE [c EXCEPT !.exit = NoCode]

EmitMessage(p) ==
  /\ EventLoopFree(p)
  /\ cli[p].ready
  /\ cli' = [cli EXCEPT ![p] = OnMessage(cli[p])]
  /\ UNCHANGED <<aside, procs, files, now, ncalls, nspawn>>

EmitExit(p) ==
  /\ EventLoopFree(p)
  /\ cli[p].exit # NoCode
  /\ cli' = [cli EXCEPT ![p] = OnExit(cli[p])]
  /\ UNCHANGED <<aside, procs, files, now, ncalls, nspawn>>

\* the record of a start() that leaves out the command line of the child
NewInstanceNoCmd(c, time) ==
  [instanceName |-> c.instanceName, pid |-> c.child, startTime |-> time,
   host |-> Host(c.args), port |-> Port(c.args), flavor |-> Flavor(c.args),
   cmd |-> NoCmd, version |-> "DEV"]

\* const instance = {startTime: Date.now(), pid: child.pid, instanceName, ...}
NewInstance(c, time) ==
  [instanceName |-> c.instanceName, pid |-> c.child, startTime |-> time,
   host |-> Host(c.args), port |-> Port(c.args), flavor |-> Flavor(c.args),
   cmd |-> c.cmd, version |-> "DEV"]

\* writeFileSync(instanceFilename, ...): open with O_TRUNC creates or empties
\* the file.  The clock may have advanced since it was last read.
StartOpen(p) ==
  /\ cli[p].pc = "open"
  /\ \E time \in {now, now + 1} :
       /\ time <= MaxTime
       /\ now' = time
       /\ cli' = [cli EXCEPT ![p].instance = NewInstance(cli[p], time), ![p].pc = "write"]
  /\ files' = [files EXCEPT ![instanceFilename(cli[p].child)] = Truncated]
  /\ procs' = IF procs[cli[p].child].owner = p
              THEN [procs EXCEPT ![cli[p].child].reg = TRUE] ELSE procs
  /\ UNCHANGED <<aside, ncalls, nspawn>>

\* ... then the write of JSON.stringify(instance); return instance
StartWrite(p) ==
  /\ cli[p].pc = "write"
  /\ files' = [files EXCEPT ![instanceFilename(cli[p].child)] = JSONstringify(cli[p].instance)]
  /\ cli' = [cli EXCEPT ![p] = Resolved(cli[p])]
  /\ procs' = Release(p)
  /\ UNCHANGED <<aside, now, ncalls, nspawn>>

\* ------------------------------------------- the detached child (cli.ts)

\* the invocation of launcher p after its child q exited with `code`: an 'exit'
\* event is queued for as long as p holds the child object
ExitEvent(p, q, code) ==
  IF Attached(p, q) THEN [cli[p] EXCEPT !.exit = code, !.exited = code] ELSE cli[p]

\* the child process q ends with `code`; its parent gets an 'exit' event.
\* With `handler` the process.on("exit") listener removes its instance file.
ChildExit(q, code, handler) ==
  /\ procs' = [procs EXCEPT ![q] = NoProc]
  /\ files' = IF handler THEN ExitHandler(q) ELSE files
  /\ cli' = IF procs[q].owner \in Launchers
            THEN [cli EXCEPT ![procs[q].owner] = ExitEvent(procs[q].owner, q, code)]
            ELSE cli

\* notifyDetachedInstanceReady(): process.send(READY_MESSAGE) reaches the
\* launcher that still holds the channel
notifyDetachedInstanceReady(q) ==
  IF procs[q].owner \in Launchers /\ Attached(procs[q].owner, q)
  THEN [cli EXCEPT ![procs[q].owner].ready = TRUE, ![procs[q].owner].sentReady = TRUE]
  ELSE cli

\* the listen callback that announces readiness although a shutdown signal
\* came while the server was opening
startGanacheIgnoresSignal(q) ==
  IF procs[q].shut
  THEN /\ procs' = [procs EXCEPT ![q].status = "closing", ![q].announced = @ + 1]
       /\ cli' = notifyDetachedInstanceReady(q)
  ELSE /\ procs' = [procs EXCEPT ![q].status = "open", ![q].announced = @ + 1]
       /\ cli' = notifyDetachedInstanceReady(q)

\* startGanache(err) as the listen callback of child q, without an error:
\* close if a shutdown signal came while opening, else initialize the flavor
\* and announce readiness (the initialization is part of this step)
startGanache(q) ==
  IF procs[q].shut
  THEN /\ procs' = [procs EXCEPT ![q].status = "closing"]
       /\ cli' = cli
  ELSE /\ procs' = [procs EXCEPT ![q].status = "open", ![q].announced = @ + 1]
       /\ cli' = notifyDetachedInstanceReady(q)

Listen(q) ==
  /\ procs[q].alive /\ procs[q].kind = "ganache" /\ procs[q].status = "opening"
  /\ startGanache(q)
  /\ UNCHANGED <<aside, files, now, ncalls, nspawn>>

\* startGanache(err) with err: process.exitCode = 1, and the process ends
ListenError(q) ==
  /\ procs[q].alive /\ procs[q].kind = "ganache" /\ procs[q].status = "opening"
  /\ ChildExit(q, 1, TRUE)
  /\ UNCHANGED <<aside, now, ncalls, nspawn>>

\* closeHandler: await server.close(); process.exitCode = 0
Closed(q) ==
  /\ procs[q].alive /\ procs[q].kind = "ganache" /\ procs[q].status = "closing"
  /\ ChildExit(q, 0, TRUE)
  /\ UNCHANGED <<aside, now, ncalls, nspawn>>

\* uncaughtException: logAndForceExit(..., 1); while the server is opening
\* this is the same step as ListenError
Crash(q) ==
  /\ procs[q].alive /\ procs[q].kind = "ganache" /\ procs[q].status # "opening"
  /\ ChildExit(q, 1, TRUE)
  /\ UNCHANGED <<aside, now, ncalls, nspawn>>

\* the child is killed outright (SIGKILL, power loss): no exit handler runs
Killed(q) ==
  /\ procs[q].alive /\ procs[q].kind = "ganache"
  /\ ChildExit(q, NullCode, FALSE)
  /\ UNCHANGED <<aside, now, ncalls, nspawn>>

\* ------------------------------------------------------- the environment

\* an unrelated process is created and is given the free pid q
OtherSpawn(q) ==
  /\ ~procs[q].alive
  /\ nspawn < MaxSpawn
  /\ procs' = [procs EXCEPT ![q] = [NoProc EXCEPT !.alive = TRUE, !.cmd = OtherCmd,
                                                  !.kind = "other"]]
  /\ nspawn' = nspawn + 1
  /\ UNCHANGED <<aside, files, cli, now, ncalls>>

OtherExit(q) ==
  /\ procs[q].alive /\ procs[q].kind = "other"
  /\ procs' = [procs EXCEPT ![q] = NoProc]
  /\ UNCHANGED <<aside, files, cli, now, ncalls, nspawn>>

\* ------------------------------------------------------------------ spec
Next ==
  \/ \E p \in Launchers : BeginList(p)
  \/ \E p \in Launchers, n \in Names : BeginStop(p, n)
  \/ \E p \in Launchers, c \in Configs : StartFork(p, c)
  \/ \E p \in Launchers, c \in Configs : StartForkError(p, c)
  \/ \E p \in Launchers : Readdir(p)
  \/ \E p \in Launchers : ListPsList(p)
  \/ \E p \in Launchers : Loop(p)
  \/ \E p \in Launchers : ListKill(p)
  \/ \E p \in Launchers : ListExists(p)
  \/ \E p \in Launchers : ListRm(p)
  \/ \E p \in Launchers : ListReturn(p)
  \/ \E p \in Launchers : StopKill(p)
  \/ \E p \in Launchers : StopExists(p)
  \/ \E p \in Launchers : StopRm(p)
  \/ \E p \in Launchers : StartCmd(p)
  \/ \E p \in Launchers : StartName(p)
  \/ \E p \in Launchers : EmitMessage(p)
  \/ \E p \in Launchers : EmitExit(p)
  \/ \E p \in Launchers : StartOpen(p)
  \/ \E p \in Launchers : StartWrite(p)
  \/ \E q \in Pids : Listen(q)
  \/ \E q \in Pids : ListenError(q)
  \/ \E q \in Pids : Closed(q)
  \/ \E q \in Pids : Crash(q)
  \/ \E q \in Pids : Killed(q)
  \/ \E q \in Pids : OtherSpawn(q)
  \/ \E q \in Pids : OtherExit(q)

Spec == Init /\ [][Next]_vars

\* -------------------------------------- createFlatChildArgs on its own
\* the lifecycle variables at rest
AtRest ==
  /\ procs = [q \in Pids |-> NoProc]
  /\ files = [f \in Filenames |-> NoFile]
  /\ cli = [p \in Launchers |-> IdleCli]
  /\ now = 0 /\ ncalls = 0 /\ nspawn = 0

FlatInit ==
  /\ AtRest
  /\ \E args \in Objects(MaxDepth) : flat = [NoFlat EXCEPT !.args = args]
  /\ fmt = NoFmt

\* const childArgs = createFlatChildArgs(args);
Flatten ==
  /\ ~flat.returned
  /\ flat' = [flat EXCEPT !.returned = TRUE,
                          !.flattenedArgs = createFlatChildArgs(flat.args)]
  /\ UNCHANGED <<procs, files, cli, now, ncalls, nspawn, fmt>>

FlatNext == Flatten

FlatSpec == FlatInit /\ [][FlatNext]_vars

\* ------------------------------------------- formatDuration on its own
DurationInit ==
  /\ AtRest
  /\ flat = NoFlat
  /\ \E ms \in Durations : fmt = [NoFmt EXCEPT !.ms = ms]

\* formatDuration(uptime), as the list action calls it for a row
Format ==
  /\ ~fmt.returned
  /\ fmt' = [fmt EXCEPT !.returned = TRUE, !.result = formatDuration(fmt.ms)]
  /\ UNCHANGED <<procs, files, cli, now, ncalls, nspawn, flat>>

DurationNext == Format

DurationSpec == DurationInit /\ [][DurationNext]_vars

\* ---------------------------------------------------------------- claims

\* the pids of the records a pass returned
pidsOf(instances) == {instances[k].pid : k \in 1 .. Len(instances)}

\* launcher p has returned from stop(name)
StopReturned(p) == cli[p].op = "stop" /\ cli[p].pc = "done"

\* the list() pass of that stop() contained a record called name
StopMatched(p) == cli[p].name \in instanceNames(cli[p].instances)

\* C1 as stated: stop(name) returns true whenever its list() pass contains a
\* record with that name, also when delivery of SIGTERM fails.
C1_StopFoundReturnsTrue ==
  \A p \in Launchers : StopReturned(p) /\ StopMatched(p) => cli[p].found = TRUE

\* C1 amended: when its list() pass contains a record with that name, stop(name)
\* returns true exactly when SIGTERM was delivered to the record's pid; when
\* delivery fails it returns false.
C1_StopReturnsDelivered ==
  \A p \in Launchers :
    StopReturned(p) /\ StopMatched(p) =>
      cli[p].found = (cli[p].instance.pid \in cli[p].signalled)

\* stop() found the record, delivery failed, and stop() returned false
C1_Witness ==
  \E p \in Launchers :
    /\ StopReturned(p) /\ StopMatched(p)
    /\ cli[p].instance.pid \notin cli[p].signalled
    /\ cli[p].found = FALSE

\* the step with which launcher p leaves stop() after having found a record
StopLeaves(p) ==
  /\ cli[p].op = "stop"
  /\ cli[p].pc \in {"stopKill", "stopExists", "stopRm"}
  /\ cli'[p].pc \in {"done", "failed"}

\* C2: stop(name) on a present name removes the registry file named by the
\* found record's pid, whether SIGTERM was delivered or not, and removes the
\* file of no other record its list() pass returned.
C2_StopRemovesThatFile ==
  /\ [][\A p \in Launchers :
          StopLeaves(p) =>
            /\ ~existsSync(files'[instanceFilename(cli[p].instance.pid)])
            /\ \A f \in Filenames \ {instanceFilename(cli[p].instance.pid)} :
                 files'[f] = files[f]]_vars
  /\ [](\A p \in Launchers :
          cli[p].op = "stop" /\ cli[p].pc \in {"stopKill", "stopExists", "stopRm", "done"}
            => cli[p].removed \cap pidsOf(cli[p].instances)
                 \subseteq {cli[p].instance.pid})

\* delivery failed, stop() removed the file of the found record and the file
\* of another record of the same pass is still there
C2_Witness ==
  \E p \in Launchers :
    /\ StopReturned(p) /\ StopMatched(p)
    /\ cli[p].instance.pid \notin cli[p].signalled
    /\ cli[p].instance.pid \in cli[p].removed
    /\ \E k \in 1 .. Len(cli[p].instances) :
         /\ cli[p].instances[k].pid # cli[p].instance.pid
         /\ files[instanceFilename(cli[p].instances[k].pid)]
              = JSONstringify(cli[p].instances[k])

\* C3 as stated: stop(name) on a name that no record of its list() pass has
\* returns false, sends no signal and removes no registry file.
C3_StopAbsentTouchesNothing ==
  \A p \in Launchers :
    StopReturned(p) /\ ~StopMatched(p) =>
      cli[p].found = FALSE /\ cli[p].signalled = {} /\ cli[p].removed = {}

\* C3 amended: stop(name) on a name that no record of its list() pass has
\* returns false, and neither signals nor removes the file of any record that
\* pass returned: all it removes or signals is what the pass evicted.
C3_StopAbsentSparesReturned ==
  \A p \in Launchers :
    StopReturned(p) /\ ~StopMatched(p) =>
      /\ cli[p].found = FALSE
      /\ cli[p].signalled \cap pidsOf(cli[p].instances) = {}
      /\ cli[p].removed \cap pidsOf(cli[p].instances) = {}
      /\ cli[p].instance = NoInstance

\* stop() of an absent name returned false after its pass evicted a stale
\* record and returned a live one, whose file is in place
C3_Witness ==
  \E p \in Launchers :
    /\ StopReturned(p) /\ ~StopMatched(p)
    /\ cli[p].found = FALSE
    /\ cli[p].removed # {}
    /\ \E k \in 1 .. Len(cli[p].instances) :
         files[instanceFilename(cli[p].instances[k].pid)]
           = JSONstringify(cli[p].instances[k])

\* the iteration launcher p is about to run, and what it will read
AtFile(p) == cli[p].pc = "loop" /\ cli[p].i <= Len(cli[p].files)
ThisFile(p) == cli[p].files[cli[p].i]
ThisPid(p) == parseInt(ThisFile(p))
\* the step of p that runs that iteration up to its first file-system call
LoopStep(p) == AtFile(p) /\ (cli'[p].pc # "loop" \/ cli'[p].i # cli[p].i)
\* the step with which p finishes removeDetachedInstanceFile in its pass
RemoveDone(p) == cli[p].pc \in {"exists", "rm"} /\ cli'[p].pc \notin {"exists", "rm"}

\* the pid of the file is live in the snapshot, the file parses, and the
\* command line in the snapshot differs from the record's cmd
Reused(p) ==
  /\ AtFile(p)
  /\ cli[p].processes[ThisPid(p)] # NoCmd
  /\ Parses(files[ThisFile(p)])
  /\ cli[p].processes[ThisPid(p)] # JSONparse(files[ThisFile(p)]).cmd

\* C4: for a registry file whose pid belongs to a live process with another
\* command line than the record's cmd, list() omits the record, goes on to
\* delete the file and sends that process no signal.
C4_ReusedPidEvictedUnsignalled ==
  /\ [][\A p \in Launchers :
          Reused(p) /\ LoopStep(p) =>
            /\ cli'[p].pc = "exists"
            /\ cli'[p].i = cli[p].i
            /\ cli'[p].instances = cli[p].instances
            /\ cli'[p].signalled = cli[p].signalled
            /\ procs' = procs]_vars
  /\ [][\A p \in Launchers :
          RemoveDone(p) => ~existsSync(files'[ThisFile(p)])]_vars

\* a pass removed the file of a pid that an unrelated process holds, and
\* that process is alive and was sent nothing
C4_Witness ==
  \E p \in Launchers :
    /\ cli[p].pc = "loop" /\ cli[p].i > 1
    /\ LET pid == parseInt(cli[p].files[cli[p].i - 1])
       IN /\ cli[p].processes[pid] = OtherCmd
          /\ pid \in cli[p].removed
          /\ pid \notin cli[p].signalled
          /\ procs[pid].alive /\ procs[pid].kind = "other"

\* the step in which the list() pass of p delivers SIGTERM to the pid of the
\* file it could not read
PassSignals(p) == cli[p].pc = "kill" /\ cli'[p].pc = "exists"

\* a detached instance that start() registered and nobody has asked to stop
StillValid(q) == ValidInstance(q) /\ procs[q].status = "open"

\* C5: under every interleaving, a list() pass sends no termination signal
\* to a still-valid detached instance.
C5_PassNeverSignalsValidInstance ==
  [][\A p \in Launchers :
       PassSignals(p) => ~StillValid(parseInt(cli[p].files[cli[p].i]))]_vars

\* the pid of the file is not in the snapshot
Gone(p) == AtFile(p) /\ cli[p].processes[ThisPid(p)] = NoCmd

\* C6: for a registry file whose pid is the pid of no process in the
\* snapshot, list() omits the record and deletes the file.
C6_DeadPidEvicted ==
  /\ [][\A p \in Launchers :
          Gone(p) /\ LoopStep(p) =>
            /\ cli'[p].instances = cli[p].instances
            /\ \/ cli'[p].pc = "rm" /\ cli'[p].i = cli[p].i
               \/ /\ cli'[p].pc = "loop" /\ cli'[p].i = cli[p].i + 1
                  /\ ~existsSync(files'[ThisFile(p)])]_vars
  /\ [][\A p \in Launchers :
          cli[p].pc = "rm" /\ cli'[p].pc # "rm" => ~existsSync(files'[ThisFile(p)])]_vars

\* a pass removed the file of a pid that was in no snapshot, and returned
\* without its record
C6_Witness ==
  \E p \in Launchers :
    /\ cli[p].op = "list" /\ cli[p].pc = "done"
    /\ \E q \in cli[p].removed :
         /\ q \notin cli[p].signalled
         /\ ~procs[q].alive
         /\ q \notin pidsOf(cli[p].instances)
         /\ ~existsSync(files[instanceFilename(q)])

\* the file parses, its pid is in the snapshot with the record's cmd
Live(p) ==
  /\ AtFile(p)
  /\ Parses(files[ThisFile(p)])
  /\ cli[p].processes[ThisPid(p)] = JSONparse(files[ThisFile(p)]).cmd

\* the records of sequence s, with their multiplicity
Count(s, x) == Cardinality({k \in 1 .. Len(s) : s[k] = x})
SameRecords(s, t) ==
  /\ Len(s) = Len(t)
  /\ \A k \in 1 .. Len(s) : Count(s, s[k]) = Count(t, s[k])

\* C7: list() keeps every record whose file parses and whose pid is in the
\* snapshot with the stored cmd, returns all the records it kept, and
\* neither removes nor changes the file of a record it kept.
C7_LiveRecordsKept ==
  /\ [][\A p \in Launchers :
          Live(p) /\ LoopStep(p) =>
            /\ cli'[p].instances = Append(cli[p].instances, JSONparse(files[ThisFile(p)]))
            /\ cli'[p].pc = "loop" /\ cli'[p].i = cli[p].i + 1
            /\ files' = files /\ procs' = procs]_vars
  /\ [][\A p \in Launchers :
          cli[p].pc = "loop" /\ cli'[p].pc \in {"done", "name", "stopKill"} =>
            SameRecords(cli[p].instances, cli'[p].instances)]_vars
  /\ [](\A p \in Launchers :
          cli[p].pc \in {"loop", "kill", "exists", "rm"} \/ (cli[p].op = "list" /\ cli[p].pc = "done")
            => cli[p].removed \cap pidsOf(cli[p].instances) = {})

\* list() returned two records, whose files are in place unchanged
C7_Witness ==
  \E p \in Launchers :
    /\ cli[p].op = "list" /\ cli[p].pc = "done"
    /\ Len(cli[p].instances) = 2
    /\ \A k \in 1 .. 2 :
         files[instanceFilename(cli[p].instances[k].pid)]
           = JSONstringify(cli[p].instances[k])

\* launcher p returned from start() and its instance is running and listed
Started(p) ==
  /\ cli[p].op = "start" /\ cli[p].pc = "done"
  /\ ValidInstance(cli[p].child)
  /\ files[instanceFilename(cli[p].child)] = JSONstringify(cli[p].instance)

\* C8: two start() calls that both succeed persist records with distinct
\* pids and distinct instanceNames, so that a list() made while both children
\* are alive returns two records of different names.
C8_StartsGetDistinctNames ==
  \A p, r \in Launchers :
    p # r /\ Started(p) /\ Started(r) =>
      /\ cli[p].instance.pid # cli[r].instance.pid
      /\ cli[p].instance.instanceName # cli[r].instance.instanceName

\* C9: a readiness message that the child sent is never lost: once it is no
\* longer in the channel, start() has stopped waiting and persists or has
\* returned the record.
C9_ReadyNeverLost ==
  \A p \in Launchers :
    cli[p].op = "start" /\ cli[p].sentReady /\ ~cli[p].ready =>
      cli[p].pc \in {"open", "write", "done"}

\* C10: when the child exits before announcing readiness, start() ends by
\* rejecting with the spawn-failure error and the exit status of the launcher
\* is the child's exit code, or 1 when that was 0.
C10_EarlyExitRejects ==
  \A p \in Launchers :
    cli[p].op = "start" /\ cli[p].exited # NoCode /\ ~cli[p].sentReady
        /\ cli[p].pc \in {"done", "failed"} =>
      /\ cli[p].pc = "failed"
      /\ cli[p].err = "START_ERROR"
      /\ cli[p].exitCode = ExitStatus(cli[p].exited)

\* launcher p is inside start() and has not yet received the handshake
Awaiting(p) ==
  /\ cli[p].op = "start"
  /\ cli[p].pc \in {"cmd", "readdir", "psList", "loop", "kill", "exists", "rm", "name", "wait"}

\* a step that creates or rewrites the registry file f
Writes(f) == files'[f] # files[f] /\ existsSync(files'[f])

\* the step is made by a start() that has received its child's readiness
\* message and persists the record of that child in f
WrittenAfterReady(f) ==
  \E p \in Launchers :
    /\ cli[p].op = "start" /\ cli[p].pc \in {"open", "write"}
    /\ instanceFilename(cli[p].child) = f
    /\ cli[p].sentReady
    /\ cli'[p].pc # cli[p].pc

\* C11 as stated: start() writes the registry file of its child's pid only
\* after the readiness message was received, and no registry file of that pid
\* exists while start() is awaiting the handshake.
C11_NoFileBeforeHandshake ==
  /\ [][\A f \in Filenames : Writes(f) => WrittenAfterReady(f)]_vars
  /\ [](\A p \in Launchers :
          Awaiting(p) => ~existsSync(files[instanceFilename(cli[p].child)]))

\* C11 amended: every write of a registry file is made by a start() that has
\* received the readiness message of the child the file is named after; while
\* start() awaits the handshake it writes nothing, so a file of the child's
\* pid that exists meanwhile was written by another start() (the leftover of
\* an earlier instance that had the pid, or another launcher's late write).
C11_WrittenOnlyAfterHandshake ==
  /\ [][\A f \in Filenames : Writes(f) => WrittenAfterReady(f)]_vars
  /\ [](\A p \in Launchers :
          cli[p].op = "start" /\ cli[p].pc \in {"open", "write", "done"}
            => cli[p].sentReady)
  /\ [][\A p \in Launchers :
          Awaiting(p) /\ Writes(instanceFilename(cli[p].child)) =>
            \E r \in Launchers \ {p} :
              /\ cli[r].op = "start" /\ cli[r].pc \in {"open", "write"}
              /\ cli[r].child = cli[p].child]_vars

\* start() returned the record it persisted after the handshake, while another
\* start() awaits the handshake of a child whose pid already names a file
C11_Witness ==
  \E p, r \in Launchers :
    /\ cli[p].op = "start" /\ cli[p].pc = "done" /\ cli[p].sentReady
    /\ files[instanceFilename(cli[p].child)] = JSONstringify(cli[p].instance)
    /\ Awaiting(r) /\ existsSync(files[instanceFilename(cli[r].child)])

\* C12: when two list() passes in different processes evict the same stale
\* record concurrently, neither fails on the removal: the second delete is a
\* no-op and raises no ENOENT, whatever the order of the checks and deletes.
C12_ConcurrentEvictionSafe ==
  (\A p \in Launchers : cli[p].op = "list") =>
    \A p \in Launchers : ~(cli[p].pc = "failed" /\ cli[p].err = "ENOENT")

\* C13: a registry file that cannot be read or parsed never makes list()
\* fail, whatever becomes of the signal sent to its pid: list() does not end
\* with the error process.kill raises (ESRCH, EPERM).
C13_UnreadableFileNeverFailsList ==
  \A p \in Launchers :
    cli[p].op = "list" /\ cli[p].pc = "failed" => cli[p].err \notin {"ESRCH", "EPERM"}

\* one launcher has made every call so far, one after the other, and the only
\* process ever created is the detached instance q, which start() registered
\* and nobody has asked to stop
OnlyInstance(q) ==
  /\ cli["B"].pc = "idle"
  /\ nspawn = 1
  /\ StillValid(q)

\* C14: from an empty registry, after start(config) succeeded and while its
\* child is alive, the record start() returned and persisted has the child's
\* pid and the host, port and flavor of config, and the next list() returns
\* exactly that one record.
C14_StartThenListReturnsIt ==
  \A q \in Pids :
    OnlyInstance(q) =>
      /\ cli["A"].op = "start" /\ cli["A"].pc = "done" =>
           /\ cli["A"].child = q
           /\ cli["A"].instance.pid = q
           /\ cli["A"].instance.instanceName = cli["A"].instanceName
           /\ cli["A"].instance.host = Host(cli["A"].args)
           /\ cli["A"].instance.port = Port(cli["A"].args)
           /\ cli["A"].instance.flavor = Flavor(cli["A"].args)
           /\ files[instanceFilename(q)] = JSONstringify(cli["A"].instance)
      /\ cli["A"].op = "list" /\ cli["A"].pc = "done" =>
           /\ Parses(files[instanceFilename(q)])
           /\ cli["A"].instances = <<JSONparse(files[instanceFilename(q)])>>
           /\ cli["A"].instances[1].pid = q
           /\ cli["A"].removed = {} /\ cli["A"].signalled = {}

\* a list() made after a start() of the filecoin configuration returned the
\* one record of that instance
C14_Witness ==
  \E q \in Pids :
    /\ OnlyInstance(q)
    /\ ncalls = 2
    /\ cli["A"].op = "list" /\ cli["A"].pc = "done"
    /\ Len(cli["A"].instances) = 1
    /\ cli["A"].instances[1].pid = q
    /\ cli["A"].instances[1].flavor = Flavor("fil")
    /\ cli["A"].instances[1].host = Host("fil")
    /\ cli["A"].instances[1].port = Port("fil")

\* C15: a detached instance removes its own registry file when it exits: once
\* the instance has exited of itself (its exit handler ran) and the start()
\* that launched it has returned, the record of that instance is not in the
\* registry, with no list() or stop() ever run.
C15_ExitedInstanceLeavesNoFile ==
  \A p \in Launchers :
    /\ ncalls = 1
    /\ cli[p].op = "start" /\ cli[p].pc = "done"
    /\ cli[p].exited \notin {NoCode, NullCode}
    => files[instanceFilename(cli[p].child)] # JSONstringify(cli[p].instance)

\* the step in which child q calls notifyDetachedInstanceReady
Announces(q) == procs[q].alive /\ procs'[q].announced > procs[q].announced

NewestFirst(s) ==
  \A i, j \in 1 .. Len(s) : i < j => s[i].startTime >= s[j].startTime

\* the step with which the pass of launcher p returns its records
PassReturns(p) ==
  /\ cli[p].pc = "loop" /\ cli[p].i > Len(cli[p].files)
  /\ cli'[p].pc # "loop"

\* C17: list() returns its records newest first (startTime of position i is at
\* least startTime of position j for i < j), and the returned sequence is a
\* permutation of the records the pass kept.
C17_ReturnedNewestFirst ==
  /\ [][\A p \in Launchers :
          PassReturns(p) =>
            /\ NewestFirst(cli'[p].instances)
            /\ SameRecords(cli[p].instances, cli'[p].instances)]_vars
  /\ [](\A p \in Launchers :
          cli[p].op = "list" /\ cli[p].pc = "done" => NewestFirst(cli[p].instances))

\* list() returned two records of different age, the newer one first although
\* its pid is the greater one
C17_Witness ==
  \E p \in Launchers :
    /\ cli[p].op = "list" /\ cli[p].pc = "done"
    /\ Len(cli[p].instances) = 2
    /\ cli[p].instances[1].startTime > cli[p].instances[2].startTime
    /\ cli[p].instances[1].pid > cli[p].instances[2].pid

\* launcher p has left the name selection of start()
NameAssigned(p) ==
  cli[p].op = "start" /\ cli[p].pc \in {"wait", "open", "write", "done"}

\* C18: the instanceName start() assigns is never one of the instanceNames
\* its list() pass returned, whatever the size of that set; a name drawn from
\* the set is discarded and another one is generated.
C18_AssignedNameNotListed ==
  /\ [](\A p \in Launchers :
          NameAssigned(p) => cli[p].instanceName \notin instanceNames(cli[p].instances))
  /\ [](\A p \in Launchers :
          cli[p].op = "start" /\ cli[p].pc \in {"write", "done"} =>
            cli[p].instance.instanceName \notin instanceNames(cli[p].instances))
  /\ [][\A p \in Launchers :
          cli[p].op = "start" /\ cli[p].pc = "name" =>
            \/ cli'[p].pc = "name"
            \/ cli'[p].instanceName \notin instanceNames(cli[p].instances)]_vars

\* start() returned a record whose name is not the one its pass had listed
C18_Witness ==
  \E p \in Launchers :
    /\ cli[p].op = "start" /\ cli[p].pc = "done"
    /\ instanceNames(cli[p].instances) = {"n1"}
    /\ cli[p].instance.instanceName = "n2"
    /\ files[instanceFilename(cli[p].child)] = JSONstringify(cli[p].instance)

\* C19: every registry file that exists, in every reachable state, is named by
\* the decimal pid of a child start() forked and contains a record whose pid
\* field is the pid of the filename (so that list(), which signals and removes
\* under the pid of the filename, and stop(), which does so under the pid
\* field, act on the same pid).
C19_FileHoldsRecordOfItsPid ==
  \A f \in Filenames :
    existsSync(files[f]) =>
      /\ Parses(files[f])
      /\ JSONparse(files[f]).pid = parseInt(f)
      /\ instanceFilename(JSONparse(files[f]).pid) = f

\* the leaves of args reached through keys none of which is "action" or
\* "flavor", each with the keys that lead to it
RECURSIVE LeavesOf(_, _)
LeavesOf(args, path) ==
  UNION {LET e == args.entries[k]
         IN IF e.key \in {"flavor", "action"} THEN {}
            ELSE IF e.value.type = "object" THEN LeavesOf(e.value, Append(path, e.key))
            ELSE {[path |-> Append(path, e.key), value |-> e.value]}
         : k \in 1 .. Len(args.entries)}

\* the "flavor" keys of args reached through such keys, with their values
RECURSIVE FlavorsOf(_, _)
FlavorsOf(args, path) ==
  UNION {LET e == args.entries[k]
         IN IF e.key = "flavor" THEN {[path |-> Append(path, e.key), value |-> e.value]}
            ELSE IF e.key # "action" /\ e.value.type = "object"
            THEN FlavorsOf(e.value, Append(path, e.key))
            ELSE {}
         : k \in 1 .. Len(args.entries)}

\* k1.k2...kn
RECURSIVE Dotted(_)
Dotted(path) ==
  IF Len(path) = 1 THEN path[1]
  ELSE (Dotted(SubSeq(path, 1, Len(path) - 1)) \o ".") \o path[Len(path)]

\* the token --k1.k2...kn=value of a leaf
Flag(leaf) == String((("--" \o Dotted(leaf.path)) \o "=") \o TemplateString(leaf.value))

\* tokens is: the values of the flavor keys F as bare tokens, then exactly one
\* flag for each leaf of L and nothing else
FlavorsThenFlags(tokens, F, L) ==
  LET nf == Cardinality(F)
  IN /\ Len(tokens) = nf + Cardinality(L)
     /\ \A f \in F :
          Cardinality({k \in 1 .. nf : tokens[k] = f.value})
            = Cardinality({g \in F : g.value = f.value})
     /\ \A l \in L :
          Cardinality({k \in (nf + 1) .. Len(tokens) : tokens[k] = Flag(l)}) = 1
     /\ \A k \in (nf + 1) .. Len(tokens) : \E l \in L : tokens[k] = Flag(l)

\* C20 as stated: createFlatChildArgs emits exactly one token --k1...kn=value
\* for each scalar leaf (null included) reached through keys other than
\* "action" and "flavor", no token for an "action" key, and the value of a
\* "flavor" key as a bare token before all flags.
C20_EveryScalarLeafOneFlag ==
  flat.returned =>
    FlavorsThenFlags(flat.flattenedArgs, FlavorsOf(flat.args, <<>>),
                     LeavesOf(flat.args, <<>>))

\* C20 amended: the same for each leaf that is a number, a string or a
\* boolean; a null value is walked like an object without keys and gets no
\* token.
C20_EveryNonNullLeafOneFlag ==
  flat.returned =>
    FlavorsThenFlags(flat.flattenedArgs, FlavorsOf(flat.args, <<>>),
                     {l \in LeavesOf(flat.args, <<>>) : l.value # Null})

\* {flavor: "x", a: {b: 1, a: null}} was flattened to ["x", "--a.b=1"]
C20_Witness ==
  /\ flat.returned
  /\ flat.args =
       Object(<<[key |-> "flavor", value |-> String("x")],
                [key |-> "a", value |->
                   Object(<<[key |-> "b", value |-> Number(1)],
                            [key |-> "a", value |-> Null]>>)]>>)
  /\ flat.flattenedArgs = <<String("x"), String("--a.b=1")>>

\* the components of floor(|ms| / 1000) seconds: days, hours mod 24, minutes
\* mod 60, seconds mod 60
Components(ms) ==
  LET secs == Abs(ms) \div 1000
  IN <<[n |-> secs \div 86400, unit |-> "day"],
       [n |-> (secs \div 3600) % 24, unit |-> "hour"],
       [n |-> (secs \div 60) % 60, unit |-> "minute"],
       [n |-> secs % 60, unit |-> "second"]>>

\* the non-zero components from position k on, each "<n> <unit>" with a
\* plural s when n is not 1, joined by ", "
RECURSIVE Spelled(_, _, _)
Spelled(comps, k, first) ==
  IF k > Len(comps) THEN ""
  ELSE IF comps[k].n = 0 THEN Spelled(comps, k + 1, first)
  ELSE ((IF first THEN "" ELSE ", ")
          \o ((ToString(comps[k].n) \o " ") \o comps[k].unit))
         \o ((IF comps[k].n = 1 THEN "" ELSE "s") \o Spelled(comps, k + 1, FALSE))

\* the uptime text of the claim
UptimeText(ms) ==
  IF Abs(ms) < 1000 THEN "Just started"
  ELSE (IF ms < 0 THEN "In " ELSE "") \o Spelled(Components(ms), 1, TRUE)

\* C21: an uptime of ms milliseconds is formatted as "Just started" when
\* |ms| < 1000, and otherwise as the non-zero components of floor(|ms|/1000)
\* seconds (days, hours, minutes, seconds: "<n> <unit>", plural s when n is
\* not 1, joined by ", "), prefixed with "In " exactly when ms is negative.
C21_UptimeFormatted ==
  fmt.returned => fmt.result = UptimeText(fmt.ms)

\* launcher p fails in this step: its start() rejects, or it dies in start()
StartFails(p) ==
  /\ cli'[p].op = "start" /\ cli'[p].pc = "failed"
  /\ cli[p].pc # "failed" \/ cli[p].op # "start"

\* C22: a start() that fails (launch error, or exit of the child before
\* readiness) writes no registry file and returns no record: the step that
\* fails writes nothing, an exit event delivered to the waiting start() makes
\* it fail, every write is made by a start() past its handshake, and such a
\* start() no longer fails.
C22_FailedStartWritesNothing ==
  /\ [][\A p \in Launchers : StartFails(p) => \A f \in Filenames : ~Writes(f)]_vars
  /\ [][\A p \in Launchers :
          cli[p].op = "start" /\ Listening(cli[p]) /\ cli[p].exit # NoCode
            /\ cli'[p].exit = NoCode
            => cli'[p].pc \in {"failed", "open"} /\ (cli'[p].pc = "open" => cli[p].ready)]_vars
  /\ [][\A f \in Filenames :
          Writes(f) =>
            \E p \in Launchers :
              /\ cli[p].op = "start" /\ cli[p].pc \in {"open", "write"}
              /\ instanceFilename(cli[p].child) = f
              /\ cli'[p].pc \in {"write", "done"}]_vars
  /\ [][\A p \in Launchers :
          cli[p].op = "start" /\ cli[p].pc \in {"open", "write"} =>
            cli'[p].op = "start" /\ cli'[p].pc \in {"open", "write", "done"}]_vars
  /\ [](\A p \in Launchers :
          cli[p].op = "start" /\ cli[p].pc = "failed" => cli[p].instance = NoInstance)

\* one start() failed on a launch error and another on the exit of its child
\* before readiness; the registry holds no file of that child's pid
C22_Witness ==
  \E p, r \in Launchers :
    /\ cli[p].op = "start" /\ cli[p].pc = "failed" /\ cli[p].err = "SpawnError"
    /\ cli[r].op = "start" /\ cli[r].pc = "failed" /\ cli[r].err = "START_ERROR"
    /\ cli[r].exited # NoCode /\ ~cli[r].sentReady
    /\ ~existsSync(files[instanceFilename(cli[r].child)])

\* launcher p delivers SIGTERM to process q in this step
Delivers(p, q) ==
  /\ procs[q].alive
  /\ \/ /\ cli[p].pc = "kill" /\ parseInt(cli[p].files[cli[p].i]) = q
        /\ cli'[p].pc = "exists"
     \/ /\ cli[p].pc = "stopKill" /\ cli[p].instance.pid = q
        /\ cli'[p].pc = "stopExists"

\* the detached child q whose server is opening
Opening(q) ==
  procs[q].alive /\ procs[q].kind = "ganache" /\ procs[q].status = "opening"

\* C23: a shutdown signal that reaches a server process while its status is
\* "opening" is recorded and the process goes on opening; the record stays
\* for as long as the process lives; when its listen callback then fires
\* without error the server is closing, not initialized; and the process
\* never announces readiness, before or after.
C23_SignalWhileOpeningCloses ==
  /\ [][\A q \in Pids, p \in Launchers :
          Opening(q) /\ Delivers(p, q) =>
            /\ procs'[q].shut /\ procs'[q].alive /\ procs'[q].status = "opening"
            /\ procs'[q].announced = 0]_vars
  /\ [][\A q \in Pids :
          procs[q].shut /\ procs'[q].alive => procs'[q].shut]_vars
  /\ [][\A q \in Pids :
          Opening(q) /\ procs[q].shut /\ procs'[q].alive /\ procs'[q].status # "opening"
            => /\ procs'[q].status = "closing"
               /\ ~Announces(q)
               /\ cli' = cli]_vars
  /\ [](\A q \in Pids :
          procs[q].shut =>
            /\ procs[q].alive /\ procs[q].kind = "ganache"
            /\ procs[q].status \in {"opening", "closing"}
            /\ procs[q].announced = 0)

\* a child was signalled while its server was opening, its listen callback
\* has fired without error since: the server is closing and readiness was
\* not announced
C23_Witness ==
  \E q \in Pids :
    /\ procs[q].alive /\ procs[q].kind = "ganache"
    /\ procs[q].shut /\ procs[q].status = "closing"
    /\ procs[q].announced = 0
    /\ \E p \in Launchers : q \in cli[p].signalled

====
